---- MODULE Spec2Model ----
(***************************************************************************)
(* Model of zgoubidoo/beam.py: the Beam class, its distribution slot, the   *)
(* from_* replacement calls, the Twiss-to-covariance conversion and the     *)
(* lazy slicing generator get_slices.                                       *)
(*                                                                         *)
(* A table (pandas.DataFrame) is a record [src, rows, cols]: src names where *)
(* its data came from, rows is the sequence of its rows in order (each row   *)
(* the position it had in that data), cols the sequence of its column       *)
(* labels.  An optional value (None or a value) is a sequence of length 0   *)
(* or 1.  Numbers that pass through a true division are exact rationals     *)
(* <<numerator, denominator>>.                                              *)
(***************************************************************************)
EXTENDS Integers, Sequences, FiniteSets, TLC

VARIABLES
    pc,            \* "new": no Beam built yet; "alive": a Beam exists; "failed": __init__ raised
    particle,      \* self._particle
    kinematic,     \* self._kinematic
    objet,         \* self._objet
    slices,        \* self._slices (the configured slice count)
    distribution,  \* self._distribution: None or Some(table)
    n_particles,   \* self._n_particles: None while the attribute does not exist
    dims,          \* self.__dims: None while the attribute does not exist
    gen,           \* the generator object of the latest get_slices call
    firstPass,     \* history: first pass completed since the distribution was last assigned
    last           \* history: the most recent call, its inputs, what it produced, its outcome

vars == <<pc, particle, kinematic, objet, slices, distribution, n_particles, dims,
          gen, firstPass, last>>

beamConfig == <<particle, kinematic, objet, slices>>

----------------------------------------------------------------------------
(* Bounds of the model *)

\* largest row count of the tables drawn as inputs
MaxRows == 3
\* largest slice count passed to Beam(..., slices=) and to get_slices(n)
MaxSlices == 4
\* largest BETA and EMIT drawn as Twiss parameters
MaxTwiss == 2

----------------------------------------------------------------------------
(* Optional values *)

None == <<>>
Some(v) == <<v>>
IsSome(o) == Len(o) = 1
Get(o) == o[1]

----------------------------------------------------------------------------
(* Tables *)

\* the labels get_slices assigns (line 63)
Canon == <<"Y", "T", "Z", "P", "D">>

\* pandas' default labels for data without labels: 0, 1, ..., c-1
RangeLabels(c) == [j \in 1..c |-> ToString(j - 1)]

\* r rows, in the order of the data they came from
RowsOf(r) == [k \in 1..r |-> k]

Table(src, r, cols) == [src |-> src, rows |-> RowsOf(r), cols |-> cols]

\* DataFrame.shape
Shape(t) == <<Len(t.rows), Len(t.cols)>>

Min(a, b) == IF a < b THEN a ELSE b
Max(a, b) == IF a > b THEN a ELSE b

\* Python's seq[lo:hi] for 0 <= lo, 0 <= hi: positions lo..hi-1, clipped to the sequence
PySlice(s, lo, hi) == SubSeq(s, Min(lo, Len(s)) + 1, Min(hi, Len(s)))

\* Python's seq[:n]: n is None (everything), n >= 0 (the first n), n < 0 (all but the last -n)
PyHead(s, n) ==
    IF ~IsSome(n) THEN s
    ELSE IF Get(n) >= 0 THEN PySlice(s, 0, Get(n))
    ELSE PySlice(s, 0, Max(Len(s) + Get(n), 0))

\* DataFrame.iloc[lo:hi]: a new frame holding the rows lo..hi-1 and the same labels
ILoc(t, lo, hi) == [t EXCEPT !.rows = PySlice(t.rows, lo, hi)]

----------------------------------------------------------------------------
(* The environment: files on disk, and what the caller may pass *)

\* the labels of the first row of the files
FileLabels == <<"x", "xp", "y", "yp", "dpp">>

\* the files under each path: None is a path that does not resolve
FileSystem(path, file) ==
    IF path = "." /\ file = "beam.csv" THEN Some(Table("beam.csv", MaxRows, FileLabels))
    ELSE IF path = "." /\ file = "seven.csv" THEN Some(Table("seven.csv", 7, FileLabels))
    ELSE IF path = "." /\ file = "ten.csv" THEN Some(Table("ten.csv", 10, FileLabels))
    ELSE IF path = "." /\ file = "hundred.csv" THEN Some(Table("hundred.csv", 100, FileLabels))
    ELSE IF path = "." /\ file = "header.csv" THEN Some(Table("header.csv", 0, FileLabels))
    ELSE IF path = "." /\ file = "xyz.csv" THEN Some(Table("xyz.csv", 2, <<"x", "y", "z">>))
    ELSE IF path = "data" /\ file = "beam.csv" THEN Some(Table("data/beam.csv", 1, Canon))
    ELSE None

FileNames == {"beam.csv", "seven.csv", "ten.csv", "hundred.csv", "header.csv", "xyz.csv", "missing.csv"}
Paths == {".", "data"}

\* tables a caller passes as distribution=
GivenTables ==
    {Table("given", r, FileLabels) : r \in {0, MaxRows}} \cup {Table("given3", 1, <<"a", "b", "c">>)}

\* first positional raw argument: none, something that is no table, or nested lists of numbers
RawArgs ==
    {[kind |-> "absent", rows |-> <<>>, ncols |-> 0], [kind |-> "scalar", rows |-> <<>>, ncols |-> 0]}
    \cup {[kind |-> "rows", rows |-> RowsOf(r), ncols |-> IF r = 0 THEN 0 ELSE 5] : r \in {0, 2}}

\* particle=, kinematic= and slices= as the caller passes them together
Configs == {<<"Proton", None, 1>>, <<"Electron", Some("kinematic"), MaxSlices - 1>>}

\* filename= at construction
InitFiles == {"beam.csv", "header.csv", "missing.csv"}

----------------------------------------------------------------------------
(* Static methods and library calls *)

\* pd.DataFrame(args[0]), line 42: IndexError without a positional argument, ValueError for
\* data that is no table, else a frame with default labels
PdDataFrame(raw) ==
    IF raw.kind = "absent" THEN [err |-> "IndexError", table |-> None]
    ELSE IF raw.kind = "scalar" THEN [err |-> "ValueError", table |-> None]
    ELSE [err |-> "", table |-> Some([src |-> "raw", rows |-> raw.rows, cols |-> RangeLabels(raw.ncols)])]

\* Beam.generate_from_file, lines 126-128: pd.read_csv(os.path.join(path, file))[:n]
generate_from_file(file, path, n) ==
    LET f == FileSystem(path, file) IN
    IF ~IsSome(f) THEN [err |-> "FileNotFoundError", table |-> None]
    ELSE [err |-> "", table |-> Some([Get(f) EXCEPT !.rows = PyHead(Get(f).rows, n)])]

----------------------------------------------------------------------------
(* Beam._initialize_distribution, lines 36-51 *)

\* the attributes _initialize_distribution writes
SelfOf(d, np, dm) == [distribution |-> d, n_particles |-> np, dims |-> dm]

\* the check rejects only a negative count
ValidateNegative(self, t) ==
    LET n == Shape(t)[1] IN
    IF n < 0
    THEN [self |-> SelfOf(Some(t), Some(n), self.dims), outcome |-> "EmptyDistribution"]
    ELSE [self |-> SelfOf(Some(t), Some(n), Some(Shape(t)[2])), outcome |-> "ok"]

\* a distribution that is already set is kept
ValidateKeepFirst(self, t) ==
    LET kept == IF IsSome(self.distribution) THEN Get(self.distribution) ELSE t
        n == Shape(kept)[1] IN
    IF n <= 0
    THEN [self |-> SelfOf(Some(kept), Some(n), self.dims), outcome |-> "EmptyDistribution"]
    ELSE [self |-> SelfOf(Some(kept), Some(n), Some(Shape(kept)[2])), outcome |-> "ok"]

\* lines 48-51, run once self._distribution holds table t
Validate(self, t) ==
    LET n == Shape(t)[1] IN
    IF n <= 0
    THEN [self |-> SelfOf(Some(t), Some(n), self.dims), outcome |-> "EmptyDistribution"]
    ELSE [self |-> SelfOf(Some(t), Some(n), Some(Shape(t)[2])), outcome |-> "ok"]

\* the filename keyword is looked at before the positional argument
initialize_distribution_file_first(self, dist, raw, filename, path) ==
    IF IsSome(dist) THEN Validate(self, Get(dist))
    ELSE IF IsSome(filename)
    THEN LET f == generate_from_file(Get(filename), IF IsSome(path) THEN Get(path) ELSE ".", None) IN
         IF f.err # "" THEN [self |-> self, outcome |-> f.err]
         ELSE Validate(self, Get(f.table))
    ELSE LET df == PdDataFrame(raw) IN
         IF df.err = "" THEN Validate(self, Get(df.table))
         ELSE [self |-> self, outcome |-> "ok"]

\* distribution: None or Some(table); raw: the positional arguments; filename, path: the
\* keyword arguments (None when not given)
initialize_distribution(self, dist, raw, filename, path) ==
    IF IsSome(dist) THEN Validate(self, Get(dist))
    ELSE LET df == PdDataFrame(raw) IN
         IF df.err = "" THEN Validate(self, Get(df.table))
         ELSE IF IsSome(filename)
              THEN LET f == generate_from_file(Get(filename), IF IsSome(path) THEN Get(path) ELSE ".", None) IN
                   IF f.err # "" THEN [self |-> self, outcome |-> f.err]
                   ELSE Validate(self, Get(f.table))
              ELSE [self |-> self, outcome |-> "ok"]

\* no positional arguments
NoArgs == [kind |-> "absent", rows |-> <<>>, ncols |-> 0]

Returned(outcome) == IF outcome = "ok" THEN Some("self") ELSE None

NoGen == [status |-> "none", arg |-> None, n |-> 0, n_tot |-> 0, n_slices |-> 0, i |-> 0,
          yielded |-> <<>>, base |-> None, clean |-> TRUE]

NoCall == [op |-> "none", args |-> <<>>, produced |-> None, sampler |-> None,
           outcome |-> "ok", ret |-> None]

Init ==
    /\ pc = "new"
    /\ particle = "Proton"
    /\ kinematic = None
    /\ objet = "Objet2"
    /\ slices = 1
    /\ distribution = None
    /\ n_particles = None
    /\ dims = None
    /\ gen = NoGen
    /\ firstPass = None
    /\ last = NoCall

\* Beam.__init__, lines 22-34
Construct(dist, part, kin, sl, raw, filename, path) ==
    /\ pc = "new"
    /\ \E r \in {initialize_distribution(SelfOf(None, None, None), dist, raw, filename, path)} :
       /\ particle' = part
       /\ kinematic' = kin
       /\ objet' = "Objet2"
       /\ slices' = sl
       /\ distribution' = r.self.distribution
       /\ n_particles' = r.self.n_particles
       /\ dims' = r.self.dims
       /\ pc' = IF r.outcome = "ok" THEN "alive" ELSE "failed"
       /\ last' = [op |-> "__init__",
                   args |-> <<dist, raw, filename, path>>,
                   produced |-> r.self.distribution,
                   sampler |-> None,
                   outcome |-> r.outcome,
                   ret |-> Returned(r.outcome)]
    /\ UNCHANGED <<gen, firstPass>>

\* Beam.from_file, lines 87-89
from_file(file, n, path) ==
    /\ pc = "alive"
    /\ \E f \in {generate_from_file(file, path, n)} :
       \E r \in {IF f.err # ""
                 THEN [self |-> SelfOf(distribution, n_particles, dims), outcome |-> f.err]
                 ELSE initialize_distribution(SelfOf(distribution, n_particles, dims),
                                              f.table, NoArgs, None, None)} :
       /\ distribution' = r.self.distribution
       /\ n_particles' = r.self.n_particles
       /\ dims' = r.self.dims
       /\ last' = [op |-> "from_file",
                   args |-> <<file, n, path>>,
                   produced |-> f.table,
                   sampler |-> None,
                   outcome |-> r.outcome,
                   ret |-> Returned(r.outcome)]
       /\ firstPass' = IF f.err = "" THEN None ELSE firstPass
    /\ UNCHANGED <<pc, beamConfig, gen>>

----------------------------------------------------------------------------
(* Exact rationals: what Python's true division and products compute on the inputs *)

Abs(a) == IF a < 0 THEN -a ELSE a

RECURSIVE Gcd(_, _)
Gcd(a, b) == IF b = 0 THEN a ELSE Gcd(b, a % b)

RNorm(p, q) ==
    LET g == Gcd(Abs(p), Abs(q))
        sgn == IF q < 0 THEN -1 ELSE 1 IN
    <<sgn * (p \div g), sgn * (q \div g)>>

R(n) == <<n, 1>>
RMul(a, b) == RNorm(a[1] * b[1], a[2] * b[2])
RNeg(a) == <<-a[1], a[2]>>
RAdd(a, b) == RNorm(a[1] * b[2] + b[1] * a[2], a[2] * b[2])
\* a / b for b # 0
RDiv(a, b) == RNorm(a[1] * b[2], a[2] * b[1])
RIsZero(a) == a[1] = 0

\* kwargs.get(k, default)
KwGet(kw, k, default) == IF k \in DOMAIN kw THEN kw[k] ELSE default

----------------------------------------------------------------------------
(* Beam.generate_from_5d_sigma_matrix, lines 130-193 *)

SigmaParams == {"x", "px", "y", "py", "dpp", "s11", "s12", "s13", "s14", "s15", "s22", "s23",
                "s24", "s25", "s33", "s34", "s35", "s44", "s45", "dpprms"}

\* the outputs of the random generator: which rows it returns is not determined by its arguments
Seeds == {"rnd1", "rnd2"}

\* a matrix for matrix=
Identity(k) == [a \in 1..k |-> [b \in 1..k |-> IF a = b THEN R(1) ELSE R(0)]]

\* lines 163-173 and 185-191: the matrix built from the keyword arguments
AssembleSigma(kw) ==
    LET p(k) == KwGet(kw, k, R(0))
        s11 == p("s11")  s12 == p("s12")  s13 == p("s13")  s14 == p("s14")  s15 == p("s15")
        s22 == p("s22")  s23 == p("s23")  s24 == p("s24")  s25 == p("s25")
        s33 == p("s33")  s34 == p("s34")  s35 == p("s35")
        s44 == p("s44")  s45 == p("s45")
        s21 == s12  s31 == s13  s32 == s23  s41 == s14  s42 == s24  s43 == s34
        s51 == s15  s52 == s25  s53 == s35  s54 == s45
        s55 == RMul(p("dpprms"), p("dpprms")) IN
    << <<s11, s12, s13, s14, s15>>,
       <<s21, s22, s23, s24, s25>>,
       <<s31, s32, s33, s34, s35>>,
       <<s41, s42, s43, s44, s45>>,
       <<s51, s52, s53, s54, s55>> >>

\* the call of the generator (lines 177-181, 183-193), and the array it returns from seed
generate_from_5d_sigma_matrix(n, kw, matrix, seed) ==
    LET mean == <<KwGet(kw, "x", R(0)), KwGet(kw, "px", R(0)), KwGet(kw, "y", R(0)),
                  KwGet(kw, "py", R(0)), KwGet(kw, "dpp", R(0))>>
        cov == IF IsSome(matrix) THEN Get(matrix) ELSE AssembleSigma(kw) IN
    IF ~(DOMAIN kw \subseteq SigmaParams) THEN [err |-> "TypeError", call |-> None, rows |-> <<>>, ncols |-> 0, seed |-> seed]
    ELSE IF IsSome(matrix) /\ (Len(Get(matrix)) # 5 \/ Len(Get(matrix)[1]) # 5)
    THEN [err |-> "AssertionError", call |-> None, rows |-> <<>>, ncols |-> 0, seed |-> seed]
    ELSE IF n < 0
    THEN [err |-> "ValueError", call |-> Some([mean |-> mean, cov |-> cov, size |-> n]),
          rows |-> <<>>, ncols |-> 0, seed |-> seed]
    ELSE [err |-> "", call |-> Some([mean |-> mean, cov |-> cov, size |-> n]),
          rows |-> RowsOf(n), ncols |-> 5, seed |-> seed]

\* pd.DataFrame(distribution), line 94: the array as a frame with default labels
FrameOfArray(a) == [src |-> a.seed, rows |-> a.rows, cols |-> RangeLabels(a.ncols)]

\* Beam.from_5d_sigma_matrix, lines 91-95, as a function of the beam's attributes
from_5d(self, n, kw, matrix, seed) ==
    LET a == generate_from_5d_sigma_matrix(n, kw, matrix, seed) IN
    IF a.err # ""
    THEN [self |-> self, outcome |-> a.err, produced |-> None, sampler |-> a.call]
    ELSE LET r == initialize_distribution(self, Some(FrameOfArray(a)), NoArgs, None, None) IN
         [self |-> r.self, outcome |-> r.outcome, produced |-> Some(FrameOfArray(a)), sampler |-> a.call]

\* Beam.from_5d_sigma_matrix
from_5d_sigma_matrix(n, kw, matrix, seed) ==
    /\ pc = "alive"
    /\ \E r \in {from_5d(SelfOf(distribution, n_particles, dims), n, kw, matrix, seed)} :
       /\ distribution' = r.self.distribution
       /\ n_particles' = r.self.n_particles
       /\ dims' = r.self.dims
       /\ last' = [op |-> "from_5d_sigma_matrix",
                   args |-> <<n, kw, matrix>>,
                   produced |-> r.produced,
                   sampler |-> r.sampler,
                   outcome |-> r.outcome,
                   ret |-> Returned(r.outcome)]
       /\ firstPass' = IF IsSome(r.produced) THEN None ELSE firstPass
    /\ UNCHANGED <<pc, beamConfig, gen>>

----------------------------------------------------------------------------
(* Beam.from_twiss_parameters, lines 97-123 *)

\* line 99
keys == {"X", "PX", "Y", "PY", "DPP", "DPPRMS", "BETAX", "ALPHAX", "BETAY", "ALPHAY", "EMITX", "EMITY"}

\* alpha is not squared
GammaNoSquare(alpha, beta) == RDiv(RAdd(R(1), alpha), beta)

\* lines 102-107
Gamma(alpha, beta) == RDiv(RAdd(R(1), RMul(alpha, alpha)), beta)

\* lines 110-121: the keyword arguments of the call of from_5d_sigma_matrix
TwissToSigma(kw) ==
    LET betax == KwGet(kw, "BETAX", R(1))
        alphax == KwGet(kw, "ALPHAX", R(0))
        gammax == Gamma(alphax, betax)
        betay == KwGet(kw, "BETAY", R(1))
        alphay == KwGet(kw, "ALPHAY", R(0))
        gammay == Gamma(alphay, betay) IN
    [x |-> KwGet(kw, "X", R(0)),
     px |-> KwGet(kw, "PX", R(0)),
     y |-> KwGet(kw, "Y", R(0)),
     py |-> KwGet(kw, "PY", R(0)),
     dpp |-> KwGet(kw, "DPP", R(0)),
     dpprms |-> KwGet(kw, "DPPRMS", R(0)),
     s11 |-> RMul(betax, kw["EMITX"]),
     s12 |-> RMul(RNeg(alphax), kw["EMITX"]),
     s22 |-> RMul(gammax, kw["EMITX"]),
     s33 |-> RMul(betay, kw["EMITY"]),
     s34 |-> RMul(RNeg(alphay), kw["EMITY"]),
     s44 |-> RMul(gammay, kw["EMITY"])]

\* the names are checked after the values are used
TwissErrorKeysLast(kw) ==
    IF RIsZero(KwGet(kw, "BETAX", R(1))) \/ RIsZero(KwGet(kw, "BETAY", R(1))) THEN "ZeroDivisionError"
    ELSE IF "EMITX" \notin DOMAIN kw \/ "EMITY" \notin DOMAIN kw THEN "KeyError"
    ELSE IF \E k \in DOMAIN kw : k \notin keys THEN "InvalidArgument"
    ELSE ""

\* the first statement of from_twiss_parameters that raises, "" when none does
TwissError(kw) ==
    IF \E k \in DOMAIN kw : k \notin keys THEN "InvalidArgument"
    ELSE IF RIsZero(KwGet(kw, "BETAX", R(1))) \/ RIsZero(KwGet(kw, "BETAY", R(1))) THEN "ZeroDivisionError"
    ELSE IF "EMITX" \notin DOMAIN kw \/ "EMITY" \notin DOMAIN kw THEN "KeyError"
    ELSE ""

from_twiss_parameters(n, kw, seed) ==
    /\ pc = "alive"
    /\ \E r \in {IF TwissError(kw) # ""
                 THEN [self |-> SelfOf(distribution, n_particles, dims), outcome |-> TwissError(kw),
                       produced |-> None, sampler |-> None]
                 ELSE from_5d(SelfOf(distribution, n_particles, dims), n, TwissToSigma(kw), None, seed)} :
       /\ distribution' = r.self.distribution
       /\ n_particles' = r.self.n_particles
       /\ dims' = r.self.dims
       /\ last' = [op |-> "from_twiss_parameters",
                   args |-> <<n, kw>>,
                   produced |-> r.produced,
                   sampler |-> r.sampler,
                   outcome |-> r.outcome,
                   ret |-> Returned(r.outcome)]
       /\ firstPass' = IF IsSome(r.produced) THEN None ELSE firstPass
    /\ UNCHANGED <<pc, beamConfig, gen>>

----------------------------------------------------------------------------
(* Beam.get_slices, lines 56-67: a generator.  Calling it builds the generator object and *)
(* runs nothing; each next() runs the body up to the following yield, return or raise.    *)

\* the chunk size rounded up
ChunkSizeCeil(n_tot, n) == (n_tot + n - 1) \div n

\* line 60: int(np.floor(n_tot / n)) for n > 0
ChunkSize(n_tot, n) == n_tot \div n

\* line 62: the bounds of the i-th candidate chunk
ChunkLo(i, n_slices) == i * n_slices
ChunkHi(i, n_slices) == (i + 1) * n_slices

\* the labels are left as they were
AssignColumnsNot(owner, d, labels) == [owner |-> owner, d |-> d]

\* the assignment reaches the frame the chunk was cut from
AssignColumnsShared(owner, d, labels) ==
    [owner |-> [owner EXCEPT !.cols = labels], d |-> [d EXCEPT !.cols = labels]]

\* line 63, d.columns = labels, for d = owner.iloc[...]: iloc built d as a frame of its own, so
\* the assignment replaces d's labels and leaves the frame it was cut from as it is
AssignColumns(owner, d, labels) == [owner |-> owner, d |-> [d EXCEPT !.cols = labels]]

\* the distribution property, lines 71-73
distribution_property == distribution

\* get_slices(n) / the slices property (n = None)
get_slices(n) ==
    /\ pc = "alive"
    /\ gen' = [NoGen EXCEPT !.status = "created", !.arg = n]
    /\ UNCHANGED <<pc, beamConfig, distribution, n_particles, dims, firstPass, last>>

\* lines 62-67 for candidate i of generator g: the generator afterwards and the stored frame
LoopBody(g, i) ==
    LET t == Get(distribution)
        d == ILoc(t, ChunkLo(i, g.n_slices), ChunkHi(i, g.n_slices))
        g1 == [g EXCEPT !.i = i, !.clean = g.clean /\ distribution = g.base] IN
    IF Len(d.cols) # Len(Canon)
    THEN [g |-> [g1 EXCEPT !.status = "ValueError"], owner |-> t]
    ELSE LET a == AssignColumns(t, d, Canon) IN
         IF Len(a.d.rows) < 1
         THEN [g |-> [g1 EXCEPT !.status = "done"], owner |-> a.owner]
         ELSE [g |-> [g1 EXCEPT !.status = "suspended", !.yielded = Append(g.yielded, a.d)],
               owner |-> a.owner]

\* the first next(): lines 57-60, then the loop from i = 0
FirstNext(g) ==
    LET n == IF IsSome(g.arg) THEN Get(g.arg) ELSE slices IN
    IF ~IsSome(distribution)
    THEN [g |-> [g EXCEPT !.n = n, !.status = "TypeError"], owner |-> None]
    ELSE LET t == Get(distribution)
             n_tot == Len(t.rows)
             g1 == [g EXCEPT !.n = n, !.n_tot = n_tot, !.base = distribution] IN
         IF n = 0
         THEN [g |-> [g1 EXCEPT !.status = "ZeroDivisionError"], owner |-> distribution]
         ELSE LET b == LoopBody([g1 EXCEPT !.n_slices = ChunkSize(n_tot, n)], 0) IN
              [g |-> b.g, owner |-> Some(b.owner)]

\* a later next(): the for loop goes on to i + 1, or ends after i = n
LaterNext(g) ==
    IF g.i + 1 > g.n
    THEN [g |-> [g EXCEPT !.status = "done"], owner |-> distribution]
    ELSE LET b == LoopBody(g, g.i + 1) IN [g |-> b.g, owner |-> Some(b.owner)]

Ended(g) == g.status \in {"done", "ValueError", "TypeError", "ZeroDivisionError"}

\* next() on the generator
next_slice ==
    /\ pc = "alive"
    /\ gen.status \in {"created", "suspended"}
    /\ \E r \in {IF gen.status = "created" THEN FirstNext(gen) ELSE LaterNext(gen)} :
       /\ gen' = r.g
       /\ distribution' = r.owner
       /\ firstPass' = IF Ended(r.g) /\ r.g.clean /\ ~IsSome(firstPass) /\ IsSome(r.g.base)
                          /\ r.g.base = distribution
                       THEN Some([n |-> r.g.n, base |-> r.g.base, yielded |-> r.g.yielded,
                                  status |-> r.g.status])
                       ELSE firstPass
    /\ UNCHANGED <<pc, beamConfig, n_particles, dims, last>>

---------------------------------------------------------------------------------------------------------------------------------------------------
(* Inputs *)

Opt(S) == {None} \cup {Some(v) : v \in S}

\* keyword arguments of from_5d_sigma_matrix
\* keyword arguments of from_5d_sigma_matrix: the entries, and matrix=
SigmaInputs ==
    {<<<<>>, None>>,
     <<[s11 |-> R(1), s12 |-> <<1, 2>>, s22 |-> R(1), x |-> R(1), dpprms |-> R(2)], None>>,
     <<[s11 |-> R(1), s66 |-> R(1)], None>>,
     <<[s11 |-> R(2)], Some(Identity(5))>>,
     <<<<>>, Some(Identity(2))>>}

TwissFew ==
    {[EMITX |-> R(1), EMITY |-> R(1)],
     [EMITX |-> R(1), EMITY |-> R(2), BETAX |-> R(2), ALPHAX |-> R(1)],
     [EMITX |-> R(1), EMITY |-> R(1), BETAY |-> R(0)],
     [EMITY |-> R(1)],
     [EMITX |-> R(1), EMITY |-> R(1), FOO |-> R(1)]}

\* Beam(...) with every combination of the ways to give or omit a distribution
ConstructAny ==
    \E dist \in Opt(GivenTables), cfg \in Configs, sl \in 0..MaxSlices, raw \in RawArgs,
       filename \in Opt(InitFiles), path \in Opt({"data"}) :
       Construct(dist, cfg[1], cfg[2], sl, raw, filename, path)

\* Beam(...) without a distribution, or with one of tables as distribution=
ConstructSome(tables) ==
    \E dist \in Opt(tables), cfg \in Configs :
       Construct(dist, cfg[1], cfg[2], cfg[3], NoArgs, None, None)

\* the ways to give, give wrongly or omit the parameters of one transverse plane
PlaneKw(beta, alpha, emit) ==
    {[k \in (DOMAIN b \cup DOMAIN a \cup DOMAIN e) |->
         IF k \in DOMAIN b THEN b[k] ELSE IF k \in DOMAIN a THEN a[k] ELSE e[k]] :
       b \in {<<>>} \cup {[k \in {beta} |-> R(v)] : v \in 0..MaxTwiss},
       a \in {<<>>} \cup {[k \in {alpha} |-> R(v)] : v \in {-1, 0, 1}},
       e \in {<<>>} \cup {[k \in {emit} |-> R(v)] : v \in {1, MaxTwiss}}}

\* f and g, two sets of keyword arguments with different names, as one
Merge(f, g) == [k \in (DOMAIN f \cup DOMAIN g) |-> IF k \in DOMAIN f THEN f[k] ELSE g[k]]

\* keyword arguments of from_twiss_parameters: one plane takes every form while the other is
\* a fixed valid one, alone or with an unknown name
TwissInputs ==
    LET fixedX == [BETAX |-> R(2), ALPHAX |-> R(1), EMITX |-> R(1), PY |-> R(-1), DPP |-> <<1, 2>>]
        fixedY == [EMITY |-> R(2), X |-> R(1), DPPRMS |-> R(2)]
        planes == {Merge(x, fixedY) : x \in PlaneKw("BETAX", "ALPHAX", "EMITX")}
                  \cup {Merge(fixedX, y) : y \in PlaneKw("BETAY", "ALPHAY", "EMITY")}
        others == {<<>>, [FOO |-> R(1)]} IN
    {Merge(pl, o) : pl \in planes, o \in others}

(* a beam from its construction on, and the calls that replace its distribution *)
NextLife ==
    \/ ConstructAny
    \/ \E file \in {"beam.csv", "header.csv", "xyz.csv", "missing.csv"}, n \in Opt({-1, 1, MaxRows + 1}),
          path \in Paths :
          from_file(file, n, path)
    \/ \E n \in {-1, 0, MaxRows}, c \in SigmaInputs, seed \in Seeds :
          from_5d_sigma_matrix(n, c[1], c[2], seed)
    \/ \E n \in {0, MaxRows - 1}, kw \in TwissFew, seed \in Seeds :
          from_twiss_parameters(n, kw, seed)

SpecLife == Init /\ [][NextLife]_vars

(* a beam, the files it is loaded from, and passes over its slices *)
NextSlices ==
    \/ ConstructSome(GivenTables)
    \/ \E c \in {<<f, None>> : f \in FileNames \ {"missing.csv"}}
                \cup {<<"beam.csv", Some(k)>> : k \in 1..(MaxRows - 1)} :
          from_file(c[1], c[2], ".")
    \/ \E n \in Opt(0..MaxSlices) : get_slices(n)
    \/ next_slice

SpecSlices == Init /\ [][NextSlices]_vars

(* a beam and from_twiss_parameters over the forms of its keyword arguments *)
NextTwiss ==
    \/ ConstructSome({})
    \/ \E n \in {0, 1}, kw \in TwissInputs : from_twiss_parameters(n, kw, "rnd1")

SpecTwiss == Init /\ [][NextTwiss]_vars

----------------------------------------------------------------------------
(* Properties of the slicing passes (SpecSlices) *)

\* a pass that has started on a stored table and has read no other table since
CleanPass == gen.status # "created" /\ gen.status # "none" /\ IsSome(gen.base) /\ gen.clean

\* the rows i*cs .. (i+1)*cs - 1 of a table of n_tot rows, counted from 0, as positions from 1
RowRange(i, cs, n_tot) ==
    [k \in 1..(Min((i + 1) * cs, n_tot) - Min(i * cs, n_tot)) |-> Min(i * cs, n_tot) + k]

\* how many chunks a whole pass yields: candidates 0..n, up to the first empty one
ChunkCount(n_tot, n) ==
    LET cs == n_tot \div n IN
    IF cs = 0 THEN 0 ELSE Cardinality({i \in 0..n : i * cs < n_tot})

Sizes(chunks) == [k \in 1..Len(chunks) |-> Len(chunks[k].rows)]

\* what C1 says of a clean pass over the rows of its table
PassAsClaimed ==
    LET n == gen.n
        n_tot == Len(Get(gen.base).rows)
        cs == n_tot \div n IN
    /\ gen.status \in {"suspended", "done"}
    /\ gen.n_slices = cs
    /\ gen.i <= n
    /\ Len(gen.yielded) <= n + 1
    /\ \A k \in 1..Len(gen.yielded) :
          /\ gen.yielded[k].rows = RowRange(k - 1, cs, n_tot)
          /\ Len(gen.yielded[k].rows) >= 1
    /\ gen.status = "suspended" => Len(gen.yielded) = gen.i + 1
    /\ gen.status = "done" => Len(gen.yielded) = ChunkCount(n_tot, n)
    /\ (gen.status = "done" /\ n_tot = 10 /\ n = 3) => Sizes(gen.yielded) = <<3, 3, 3, 1>>
    /\ (gen.status = "done" /\ n_tot = 100 /\ n = 4) => Sizes(gen.yielded) = <<25, 25, 25, 25>>

\* C1 as stated: for a distribution of n_tot >= 1 rows and n >= 1, a pass computes
\* chunk_size = floor(n_tot / n), yields the rows [i*chunk_size, (i+1)*chunk_size) clipped to
\* the table for i = 0, 1, ..., stops without yielding at the first chunk of fewer than 1 row,
\* never goes past i = n, yields at most n+1 chunks; 10 rows with n = 3 yield chunks of
\* 3, 3, 3, 1 rows and 100 rows with n = 4 yield 4 chunks of 25 rows.
C1_AsStated ==
    (CleanPass /\ gen.n >= 1 /\ Len(Get(gen.base).rows) >= 1) => PassAsClaimed

\* C1 amended: the same, for a distribution of exactly 5 columns (with another column count
\* the pass raises at its first candidate chunk and yields nothing).
C1_FiveColumns ==
    (CleanPass /\ gen.n >= 1 /\ Len(Get(gen.base).rows) >= 1 /\ Len(Get(gen.base).cols) = 5)
        => PassAsClaimed

\* a pass over 10 rows with n = 3 has ended after its 4 chunks
C1_Witness ==
    /\ CleanPass /\ gen.status = "done" /\ gen.n = 3
    /\ Len(Get(gen.base).rows) = 10
    /\ Len(gen.yielded) = 4

RECURSIVE Concat(_)
Concat(chunks) == IF chunks = <<>> THEN <<>> ELSE Head(chunks).rows \o Concat(Tail(chunks))

\* C2 as stated: the chunks of a whole pass, concatenated in yield order, are every row of
\* the distribution exactly once, in row order.
C2_Partition ==
    (CleanPass /\ gen.status = "done" /\ gen.n >= 1 /\ Len(Get(gen.base).rows) >= 1)
        => Concat(gen.yielded) = Get(gen.base).rows

\* C3: every chunk a pass has yielded has the labels Y, T, Z, P, D in that order.
C3_Labels ==
    \A k \in 1..Len(gen.yielded) : gen.yielded[k].cols = <<"Y", "T", "Z", "P", "D">>

\* a chunk was yielded from a table whose labels are others
C3_Witness ==
    /\ Len(gen.yielded) >= 1
    /\ CleanPass
    /\ Get(gen.base).cols = <<"x", "xp", "y", "yp", "dpp">>

IsPrefix(a, b) == Len(a) <= Len(b) /\ SubSeq(b, 1, Len(a)) = a

\* a later pass with the slice count of the first pass over the same stored table
Repeats ==
    (IsSome(firstPass) /\ CleanPass /\ gen.n = Get(firstPass).n /\ gen.base = Get(firstPass).base)
        => /\ IsPrefix(gen.yielded, Get(firstPass).yielded)
           /\ Ended(gen) => (gen.yielded = Get(firstPass).yielded /\ gen.status = Get(firstPass).status)

\* C10: no step of a pass (the call of get_slices, a next()) changes the stored distribution
\* or the configured slice count, and a pass with the same n over the same stored
\* distribution yields the chunks of the first one.
C10_NoMutation ==
    /\ [][gen' # gen => (distribution' = distribution /\ slices' = slices
                          /\ n_particles' = n_particles /\ dims' = dims)]_vars
    /\ []Repeats

\* a pass after the first completed one (which has ended, so this one is another) has
\* yielded the first two chunks of the first
C10_Witness ==
    /\ IsSome(firstPass) /\ CleanPass /\ gen.status = "suspended"
    /\ gen.n = Get(firstPass).n /\ gen.base = Get(firstPass).base
    /\ distribution_property = gen.base
    /\ Len(gen.yielded) = 2
    /\ gen.yielded = SubSeq(Get(firstPass).yielded, 1, 2)

----------------------------------------------------------------------------
(* Properties of construction and of the from_* calls (SpecLife) *)

FromOps == {"from_file", "from_5d_sigma_matrix", "from_twiss_parameters"}

\* C4: whenever a call hands a table to the beam, the call fails with the
\* empty-distribution error if the table has 0 rows and succeeds if it has at least 1.
C4_EmptyRejected ==
    (last.op # "none" /\ IsSome(last.produced)) =>
        /\ Len(Get(last.produced).rows) = 0 => last.outcome = "EmptyDistribution"
        /\ Len(Get(last.produced).rows) >= 1 => last.outcome = "ok"

\* from_file has loaded a file with a header and no rows, and failed
C4_Witness ==
    /\ last.op = "from_file"
    /\ IsSome(last.produced) /\ Len(Get(last.produced).rows) = 0
    /\ last.outcome = "EmptyDistribution"

\* the frame pd.DataFrame builds from nested lists
FrameOfRaw(raw) == [src |-> "raw", rows |-> raw.rows, cols |-> [j \in 1..raw.ncols |-> ToString(j - 1)]]

\* C7: construction takes the explicit table if given; else the first positional argument if
\* it is tabular; else, with a filename keyword, the file; else it leaves the beam without a
\* distribution and succeeds.
C7_ResolutionOrder ==
    last.op = "__init__" =>
        LET dist == last.args[1]
            raw == last.args[2]
            filename == last.args[3]
            path == IF IsSome(last.args[4]) THEN Get(last.args[4]) ELSE "." IN
        IF IsSome(dist) THEN distribution = dist
        ELSE IF raw.kind = "rows" THEN distribution = Some(FrameOfRaw(raw))
        ELSE IF IsSome(filename)
             THEN IF IsSome(FileSystem(path, Get(filename)))
                  THEN distribution = FileSystem(path, Get(filename))
                  ELSE distribution = None /\ last.outcome = "FileNotFoundError"
        ELSE distribution = None /\ last.outcome = "ok" /\ pc = "alive"

\* a construction whose positional argument is no table and that loaded its file
C7_Witness ==
    /\ last.op = "__init__" /\ pc = "alive"
    /\ ~IsSome(last.args[1]) /\ last.args[2].kind = "scalar" /\ IsSome(last.args[3])
    /\ IsSome(distribution) /\ Get(distribution).src = "beam.csv"

\* C8: after a from_* call that succeeded, the stored distribution is the table that call
\* produced and the call returned the beam; no from_* call changes the particle, the
\* kinematic or the configured slice count.
C8_Replaced ==
    /\ []((last.op \in FromOps /\ last.outcome = "ok")
            => (distribution = last.produced /\ IsSome(distribution) /\ last.ret = Some("self")))
    /\ [][(last' # last /\ last'.op \in FromOps)
            => (particle' = particle /\ kinematic' = kinematic /\ slices' = slices)]_vars

\* from_twiss_parameters has replaced a table the beam was built with
C8_Witness ==
    /\ last.op = "from_twiss_parameters" /\ last.outcome = "ok"
    /\ distribution = last.produced
    /\ Get(distribution).src \in Seeds
    /\ particle = "Electron"

\* C9 as stated: the stored distribution of a beam is unset or has at least one row, and
\* the recorded particle count is its row count.
C9_NeverEmpty ==
    (pc = "alive" /\ IsSome(distribution)) =>
        /\ Len(Get(distribution).rows) >= 1
        /\ n_particles = Some(Len(Get(distribution).rows))

----------------------------------------------------------------------------
(* Properties of from_twiss_parameters (SpecTwiss) *)

Recognized == {"X", "PX", "Y", "PY", "DPP", "DPPRMS", "BETAX", "ALPHAX", "BETAY", "ALPHAY",
               "EMITX", "EMITY"}

\* C5: a call of from_twiss_parameters with a keyword outside the 12 names fails with the
\* invalid-argument error, whatever else is given or missing.
C5_UnknownKey ==
    (last.op = "from_twiss_parameters" /\ ~(DOMAIN last.args[2] \subseteq Recognized))
        => last.outcome = "InvalidArgument"

\* a call with an unknown keyword, BETAX = 0 and no EMITX
C5_Witness ==
    /\ last.op = "from_twiss_parameters"
    /\ "FOO" \in DOMAIN last.args[2]
    /\ "EMITX" \notin DOMAIN last.args[2]
    /\ "BETAX" \in DOMAIN last.args[2] /\ last.args[2]["BETAX"] = <<0, 1>>
    /\ last.outcome = "InvalidArgument"

\* keyword k of kw, or its default
Given(kw, k, default) == IF k \in DOMAIN kw THEN kw[k] ELSE default

ValidTwiss(kw) ==
    /\ DOMAIN kw \subseteq Recognized
    /\ {"EMITX", "EMITY"} \subseteq DOMAIN kw
    /\ Given(kw, "BETAX", <<1, 1>>)[1] > 0
    /\ Given(kw, "BETAY", <<1, 1>>)[1] > 0

\* p/q as a rational in lowest terms, for q > 0
Frac(p, q) == LET g == Gcd(Abs(p), q) IN <<p \div g, q \div g>>

\* the covariance matrix C6 states for kw, with s55 = DPPRMS^2
ClaimedSigma(kw) ==
    LET bx == Given(kw, "BETAX", <<1, 1>>)  ax == Given(kw, "ALPHAX", <<0, 1>>)  ex == kw["EMITX"]
        by == Given(kw, "BETAY", <<1, 1>>)  ay == Given(kw, "ALPHAY", <<0, 1>>)  ey == kw["EMITY"]
        sd == Given(kw, "DPPRMS", <<0, 1>>)
        z == <<0, 1>>
        s11 == Frac(bx[1] * ex[1], bx[2] * ex[2])
        s12 == Frac(-(ax[1] * ex[1]), ax[2] * ex[2])
        s22 == Frac((ax[2] * ax[2] + ax[1] * ax[1]) * bx[2] * ex[1], ax[2] * ax[2] * bx[1] * ex[2])
        s33 == Frac(by[1] * ey[1], by[2] * ey[2])
        s34 == Frac(-(ay[1] * ey[1]), ay[2] * ey[2])
        s44 == Frac((ay[2] * ay[2] + ay[1] * ay[1]) * by[2] * ey[1], ay[2] * ay[2] * by[1] * ey[2])
        s55 == Frac(sd[1] * sd[1], sd[2] * sd[2]) IN
    << <<s11, s12, z, z, z>>,
       <<s12, s22, z, z, z>>,
       <<z, z, s33, s34, z>>,
       <<z, z, s34, s44, z>>,
       <<z, z, z, z, s55>> >>

\* C6: for a valid Twiss input the sampler is called with s11 = BETAX*EMITX,
\* s12 = -ALPHAX*EMITX, s22 = ((1+ALPHAX^2)/BETAX)*EMITX, the same in the other plane, and 0
\* for every covariance across planes or with the momentum; BETAX=2, ALPHAX=0, EMITX=1 give
\* 2, 0, 1/2 and BETAX=2, ALPHAX=1, EMITX=1 give 2, -1, 1.
C6_TwissToSigma ==
    (last.op = "from_twiss_parameters" /\ ValidTwiss(last.args[2])) =>
        LET kw == last.args[2] IN
        /\ IsSome(last.sampler)
        /\ Get(last.sampler).cov = ClaimedSigma(kw)
        /\ (Given(kw, "BETAX", <<1, 1>>) = <<2, 1>> /\ Given(kw, "ALPHAX", <<0, 1>>) = <<0, 1>>
              /\ kw["EMITX"] = <<1, 1>>)
             => /\ Get(last.sampler).cov[1][1] = <<2, 1>>
                /\ Get(last.sampler).cov[1][2] = <<0, 1>>
                /\ Get(last.sampler).cov[2][2] = <<1, 2>>
        /\ (Given(kw, "BETAX", <<1, 1>>) = <<2, 1>> /\ Given(kw, "ALPHAX", <<0, 1>>) = <<1, 1>>
              /\ kw["EMITX"] = <<1, 1>>)
             => /\ Get(last.sampler).cov[1][1] = <<2, 1>>
                /\ Get(last.sampler).cov[1][2] = <<-1, 1>>
                /\ Get(last.sampler).cov[2][2] = <<1, 1>>

\* the sampler was called for BETAX = 2, ALPHAX = -1, EMITX = 2
C6_Witness ==
    /\ last.op = "from_twiss_parameters" /\ last.outcome = "ok"
    /\ ValidTwiss(last.args[2])
    /\ Given(last.args[2], "BETAX", <<1, 1>>) = <<2, 1>>
    /\ Given(last.args[2], "ALPHAX", <<0, 1>>) = <<-1, 1>>
    /\ last.args[2]["EMITX"] = <<2, 1>>
    /\ Get(last.sampler).cov[2][2] = <<2, 1>>
    /\ Get(last.sampler).cov[1][2] = <<2, 1>>

====
